---- MODULE Spec2Model ----
(***************************************************************************)
(* Model of the scan-to-check-in workflow of the loyalty kiosk front end:  *)
(*   src/unnamed/part_000            AppState, initializeApp, navigateTo   *)
(*   src/app/frontend/static/scan.js setCookie, getCookie,                 *)
(*                                   initializeCamera, handleScan          *)
(* The browser runs one callback at a time; every action below is one      *)
(* callback (or one user event) run to completion.  Promises, XHRs, script *)
(* loads and timers that are pending are part of the state.                *)
(*                                                                         *)
(* startScan, stopScanning, sendMessageToCustomersPage and                 *)
(* sendRewardMessageToCustomersPage are called by the sources above but    *)
(* defined in files that are not part of src/; they are modelled from      *)
(* spec.md (4.1 start()/stop(), 6 notification sinks).                     *)
(***************************************************************************)
EXTENDS Integers, Sequences, FiniteSets, Bags, TLC

\* ---------------------------------------------------------------- bounds
\* Decode events handled in one behaviour.
MaxDecodes == 2
\* Navigations started by the user after the application has loaded.
MaxNavs == 1

\* ------------------------------------------------------------- constants
\* scan.js:54,59  setCookie('selectedCamera', cameraId, 30)
CookieDays == 30
\* scan.js:104,115  setTimeout(..., 1000)
ErrorDelayMs == 1000

Null == "null"
\* The identifier cameraId is read at scan.js:54 and :59 but declared
\* nowhere in the sources.  Either no other script declares it and the read
\* throws a ReferenceError, or another script declares a global of that name
\* and the read yields whatever that global holds ("cam9": some text that is
\* not the resolved device id).
Undeclared == "ReferenceError"
CameraIdEnv == {Undeclared, "cam9"}

\* Results of Html5Qrcode.getCameras(): lists of device ids.
DeviceLists == {<< >>, <<"cam1", "cam2">>}
\* Values the selectedCamera cookie can hold when the application loads.
InitialCookies == {Null, "cam2", "cam9"}

\* Views navigateTo is called with.  The page logic of the views other than
\* scan (customers, programs, new_customer, new_program) starts or stops
\* message timers and wires forms, none of which is state of this model, so
\* "customers" stands for all of them.
Pages == {"customers", "scan"}

\* Failed API responses: responseJSON.details (Null when the body is not
\* JSON or has no such field) and the raw responseText.
XhrErrors ==
    { [details |-> "not found", responseText |-> "{details}"],
      [details |-> "",          responseText |-> "Bad Request"],
      [details |-> Null,        responseText |-> "Internal Server Error"],
      [details |-> Null,        responseText |-> ""] }

\* The failed responses the pipeline is run with where the text of the
\* message is not in question: it decides no branch of the pipeline.
PipelineErrors == { xhr \in XhrErrors : xhr.details \notin {Null, ""} }

\* The xhr of a run none of whose requests has failed.
NoXhr == [details |-> Null, responseText |-> Null]

VARIABLES
    cameraInitialized,    \* AppState.cameraInitialized
    html5QrcodeScanner,   \* AppState.html5QrcodeScanner: 0 is null, n the n-th scanner constructed
    deviceId,             \* AppState.deviceId
    cookie,               \* value of the selectedCamera cookie, Null when absent
    cameraId,             \* what reading the identifier cameraId yields
    loaded,               \* the window's load event has run initializeApp
    content,              \* the view whose HTML is in #main-content
    dropdown,             \* #cameraDropdown: option values in order, change listeners installed
    navs,                 \* navigateTo calls in flight
    loading,              \* html5-qrcode script elements appended and not yet loaded
    enumerating,          \* Html5Qrcode.getCameras() promises pending
    scanning,             \* the camera session is scanning (decodes can fire)
    runs,                 \* handleScan runs, one per decode event
    errorMessage,         \* #error-message: text and visibility
    navCount,             \* user navigations so far
    alert,                \* the alert() raised by the callback that just ran, "none" if none
    settled               \* what getCameras() settled with in the callback that just ran

vars == << cameraInitialized, html5QrcodeScanner, deviceId, cookie, cameraId,
           loaded, content, dropdown, navs, loading, enumerating, scanning,
           runs, errorMessage, navCount, alert, settled >>

appStateVars == << cameraInitialized, html5QrcodeScanner, deviceId >>
cameraVars == << cookie, dropdown, loading, enumerating >>
pageVars == << loaded, content, navs, navCount >>

\* ------------------------------------------------------------- helpers
Range(s) == { s[i] : i \in 1..Len(s) }

\* A run is in flight from its decode event until it navigated, resumed
\* scanning or was aborted.
ActivePcs == {"stopping", "lookup", "submit", "timer"}
ActiveRuns == { r \in 1..Len(runs) : runs[r].pc \in ActivePcs }

\* alert and settled describe the callback that just ran only: every
\* callback that raises no alert and is no getCameras() continuation resets
\* them.
NotSettled == [kind |-> "none", devices |-> << >>]
Alert(message) == alert' = message /\ settled' = NotSettled
Quiet == Alert("none")

\* ------------------------------------------------------------- cookies
\* setCookie writes `${name}=${value}`: the value is converted to a string,
\* so undefined is stored as the text "undefined".
setCookie(value) == cookie' = value

\* getCookie returns the stored text, or null when no cookie has the name.
getCookie == cookie

\* ------------------------------------------------- camera session surface
\* start(): begins continuous decode scanning against the active device.
startScan == scanning' = TRUE

\* A stop() that toggles the camera instead of halting it.
stopScanning_Toggle == scanning' = ~scanning

\* stop(): halts active scanning; a no-op when not scanning.  Whether the
\* returned promise resolves or rejects, the session is left stopped.
stopScanning == scanning' = FALSE

\* Html5Qrcode.stop() as called by handleScan on AppState.html5QrcodeScanner.
scannerStop == scanning' = FALSE

\* ------------------------------------------------------------ navigateTo
\* navigateTo(page): starts the fetch (and sets the hash, which nothing
\* modelled here reads); by is 0 for the user or initializeApp and the run's
\* index for the pipeline.  navs is the bag of the calls in flight.
Nav(page, by, pc) == SetToBag({[page |-> page, by |-> by, pc |-> pc]})

navigateTo(page, by) == navs' = navs (+) Nav(page, by, "fetch")

initializeApp ==
    /\ Quiet
    /\ ~loaded
    /\ loaded' = TRUE
    /\ \E page \in Pages : navigateTo(page, 0)
    /\ UNCHANGED << content, navCount >>
    /\ UNCHANGED << appStateVars, cameraVars, cameraId, scanning, runs,
                    errorMessage >>

\* The user follows a link to a view.  A run in flight whose user leaves the
\* scan view is marked stale.
UserNavigate ==
    /\ Quiet
    /\ loaded
    /\ navCount < MaxNavs
    /\ navCount' = navCount + 1
    /\ \E page \in Pages :
          /\ navigateTo(page, 0)
          /\ runs' = [ r \in 1..Len(runs) |->
                         IF page # "scan" /\ runs[r].pc \in ActivePcs
                         THEN [runs[r] EXCEPT !.stale = TRUE]
                         ELSE runs[r] ]
    /\ UNCHANGED << loaded, content >>
    /\ UNCHANGED << appStateVars, cameraVars, cameraId, scanning,
                    errorMessage >>

\* fetch resolved with response.ok: the view's HTML replaces #main-content
\* (and with it the #cameraDropdown of the previous view), then
\* stopScanning() is called.
FetchResolved(n) ==
    /\ Quiet
    /\ n.pc = "fetch"
    /\ content' = n.page
    /\ dropdown' = [options |-> << >>, listeners |-> 0]
    /\ stopScanning
    /\ navs' = (navs (-) Nav(n.page, n.by, "fetch")) (+) Nav(n.page, n.by, "stop")
    /\ UNCHANGED << loaded, navCount, cookie, loading, enumerating >>
    /\ UNCHANGED << appStateVars, cameraId, runs, errorMessage >>

\* fetch rejected or response not ok: the 404 text is shown; stopScanning
\* and the page logic are not reached.
FetchFailed(n) ==
    /\ Quiet
    /\ n.pc = "fetch"
    /\ content' = "404"
    /\ dropdown' = [options |-> << >>, listeners |-> 0]
    /\ navs' = navs (-) Nav(n.page, n.by, "fetch")
    /\ UNCHANGED << loaded, navCount, cookie, loading, enumerating >>
    /\ UNCHANGED << appStateVars, cameraId, scanning, runs, errorMessage >>

\* An initializeCamera() that loads the library on every call.
initializeCamera_AlwaysLoads ==
    /\ loading' = loading + 1
    /\ UNCHANGED scanning

\* An initializeCamera() that does not look at cameraInitialized.
initializeCamera_Unguarded ==
    /\ startScan
    /\ UNCHANGED loading

\* initializeCamera(): lazy load on first use, startScan() afterwards.
initializeCamera ==
    IF ~cameraInitialized
    THEN /\ loading' = loading + 1
         /\ UNCHANGED scanning
    ELSE /\ startScan
         /\ UNCHANGED loading

\* stopScanning().finally(...): the page-specific logic, run whether the
\* stop resolved or rejected.  Only the scan view's logic touches the state
\* modelled here.
StopSettled(n) ==
    /\ Quiet
    /\ n.pc = "stop"
    /\ navs' = navs (-) Nav(n.page, n.by, "stop")
    /\ IF n.page = "scan"
       THEN initializeCamera
       ELSE UNCHANGED << loading, scanning >>
    /\ UNCHANGED << loaded, content, navCount, cookie, dropdown, enumerating >>
    /\ UNCHANGED << appStateVars, cameraId, runs, errorMessage >>

\* ------------------------------------------------------- initializeCamera
\* script.onload: Html5Qrcode.getCameras() is called.
ScriptLoaded ==
    /\ Quiet
    /\ loading > 0
    /\ loading' = loading - 1
    /\ enumerating' = enumerating + 1
    /\ UNCHANGED << cookie, dropdown >>
    /\ UNCHANGED << appStateVars, pageVars, cameraId, scanning, runs,
                    errorMessage >>

\* script.onerror that reports nothing.
ScriptError_Silent ==
    /\ Quiet
    /\ loading > 0
    /\ loading' = loading - 1
    /\ UNCHANGED << cookie, dropdown, enumerating >>
    /\ UNCHANGED << appStateVars, pageVars, cameraId, scanning, runs,
                    errorMessage >>

\* script.onerror: alert("Failed to load QR scanner library...").
ScriptError ==
    /\ Alert("library")
    /\ loading > 0
    /\ loading' = loading - 1
    /\ UNCHANGED << cookie, dropdown, enumerating >>
    /\ UNCHANGED << appStateVars, pageVars, cameraId, scanning, runs,
                    errorMessage >>

\* getCameras() rejected: alert(`Camera initialization error: ${err}`).
CamerasRejected ==
    /\ alert' = "camera"
    /\ settled' = [kind |-> "rejected", devices |-> << >>]
    /\ enumerating > 0
    /\ enumerating' = enumerating - 1
    /\ UNCHANGED << cookie, dropdown, loading >>
    /\ UNCHANGED << appStateVars, pageVars, cameraId, scanning, runs,
                    errorMessage >>

\* document.getElementById('cameraDropdown'): the element belongs to the scan
\* view's HTML, which is not part of the sources.  While the scan view is
\* displayed it is there; while another view is displayed it may be missing
\* (null, and dropdown.appendChild throws a TypeError) or part of the layout.
DropdownFound == IF content = "scan" THEN {TRUE} ELSE BOOLEAN

\* The device the selection resolves to: the saved id when it is truthy and
\* among the devices, the first device otherwise.
ResolveDevice(devices, savedCameraId) ==
    IF savedCameraId \notin {Null, ""}
       /\ \E k \in 1..Len(devices) : devices[k] = savedCameraId
    THEN savedCameraId
    ELSE devices[1]

\* getCameras().then((devices) => ...), with the .catch that follows it.
CamerasResolved(devices) ==
    /\ enumerating > 0
    /\ settled' = [kind |-> "resolved", devices |-> devices]
    /\ enumerating' = enumerating - 1
    /\ UNCHANGED << pageVars, cameraId, runs, errorMessage, loading >>
    /\ \E found \in DropdownFound :
        IF Len(devices) = 0
        THEN \* if (devices && devices.length) is false: nothing is done
             /\ alert' = "none"
             /\ UNCHANGED << appStateVars, cookie, dropdown, scanning >>
        ELSE IF ~found
        THEN \* dropdown is null: TypeError in the forEach, caught, alert
             /\ alert' = "camera"
             /\ UNCHANGED << appStateVars, cookie, dropdown, scanning >>
        ELSE IF cameraId = Undeclared
        THEN \* options added and deviceId set, then setCookie(..., cameraId, 30)
             \* throws a ReferenceError: caught, alert
             /\ alert' = "camera"
             /\ deviceId' = ResolveDevice(devices, getCookie)
             /\ dropdown' = [dropdown EXCEPT !.options = @ \o devices]
             /\ UNCHANGED << cameraInitialized, html5QrcodeScanner, cookie,
                             scanning >>
        ELSE /\ alert' = "none"
             /\ deviceId' = ResolveDevice(devices, getCookie)
             /\ setCookie(cameraId)
             /\ dropdown' = [options |-> dropdown.options \o devices,
                             listeners |-> dropdown.listeners + 1]
             /\ html5QrcodeScanner' = html5QrcodeScanner + 1
             /\ cameraInitialized' = TRUE
             /\ startScan

\* The dropdown's change listener(s): the user picks one of the options.
DropdownChange ==
    /\ Quiet
    /\ dropdown.listeners > 0
    /\ \E id \in Range(dropdown.options) :
          /\ id # deviceId
          /\ deviceId' = id
    /\ IF cameraId = Undeclared THEN UNCHANGED cookie ELSE setCookie(cameraId)
    /\ UNCHANGED << cameraInitialized, html5QrcodeScanner, dropdown, loading,
                    enumerating >>
    /\ UNCHANGED << pageVars, cameraId, scanning, runs, errorMessage >>

\* ------------------------------------------------------------ handleScan
Log(r, events) == [runs EXCEPT ![r].fx = @ \o events]

\* An error text that prefers the raw body to the details field.
ErrorText_BodyFirst(xhr) ==
    IF xhr.responseText # "" THEN xhr.responseText
    ELSE IF xhr.details \notin {Null, ""} THEN xhr.details
    ELSE "Errore generico"

\* xhr.responseJSON?.details || xhr.responseText || "Errore generico"
ErrorText(xhr) ==
    IF xhr.details \notin {Null, ""} THEN xhr.details
    ELSE IF xhr.responseText # "" THEN xhr.responseText
    ELSE "Errore generico"

\* A decode event: the scanner calls handleScan(decodedText), which calls
\* AppState.html5QrcodeScanner.stop().
handleScan ==
    /\ Quiet
    /\ scanning
    /\ Len(runs) < MaxDecodes
    /\ runs' = Append(runs, [pc |-> "stopping", rewardDue |-> FALSE,
                             stale |-> FALSE, fx |-> <<"stop">>,
                             xhr |-> NoXhr])
    /\ scannerStop
    /\ UNCHANGED << appStateVars, cameraVars, pageVars, cameraId,
                    errorMessage >>

\* stop().then(...): the lookup GET accesses/reward_due_qr/{code} is issued.
StopResolved(r) ==
    /\ Quiet
    /\ runs[r].pc = "stopping"
    /\ runs' = [Log(r, <<"stopOk", "lookup">>) EXCEPT ![r].pc = "lookup"]
    /\ UNCHANGED << appStateVars, cameraVars, pageVars, cameraId, scanning,
                    errorMessage >>

\* Mutant of StopRejected: the failure is reported and scanning is restarted.
StopRejected_Restarts(r) ==
    /\ Alert("stop")
    /\ runs[r].pc = "stopping"
    /\ startScan
    /\ runs' = [Log(r, <<"stopErr", "alert", "start">>) EXCEPT ![r].pc = "aborted"]
    /\ UNCHANGED << appStateVars, cameraVars, pageVars, cameraId,
                    errorMessage >>

\* stop() rejected: .catch((err) => alert(`Failed to stop scanner: ${err}`)).
StopRejected(r) ==
    /\ Alert("stop")
    /\ runs[r].pc = "stopping"
    /\ runs' = [Log(r, <<"stopErr", "alert">>) EXCEPT ![r].pc = "aborted"]
    /\ UNCHANGED << appStateVars, cameraVars, pageVars, cameraId, scanning,
                    errorMessage >>

\* success of the lookup: the submission POST accesses/add is issued.
LookupSuccess(r, reward_due) ==
    /\ Quiet
    /\ runs[r].pc = "lookup"
    /\ runs' = [Log(r, <<"lookupOk", "submit">>) EXCEPT
                   ![r].pc = "submit", ![r].rewardDue = reward_due]
    /\ UNCHANGED << appStateVars, cameraVars, pageVars, cameraId, scanning,
                    errorMessage >>

\* Mutant of LookupError: the submission is issued although the lookup failed.
LookupError_Submits(r, xhr) ==
    /\ Quiet
    /\ runs[r].pc = "lookup"
    /\ errorMessage' = [text |-> ErrorText(xhr), visible |-> TRUE]
    /\ runs' = [Log(r, <<"lookupErr", "error", "submit">>) EXCEPT ![r].pc = "submit",
                                                                  ![r].xhr = xhr]
    /\ UNCHANGED << appStateVars, cameraVars, pageVars, cameraId, scanning >>

\* error of the lookup: the message is shown and the 1000 ms timer is set.
LookupError(r, xhr) ==
    /\ Quiet
    /\ runs[r].pc = "lookup"
    /\ errorMessage' = [text |-> ErrorText(xhr), visible |-> TRUE]
    /\ runs' = [Log(r, <<"lookupErr", "error">>) EXCEPT ![r].pc = "timer",
                                                        ![r].xhr = xhr]
    /\ UNCHANGED << appStateVars, cameraVars, pageVars, cameraId, scanning >>

\* Mutant of SubmitSuccess: the reward notification is sent whatever the
\* lookup answered.
SubmitSuccess_AlwaysReward(r) ==
    /\ Quiet
    /\ runs[r].pc = "submit"
    /\ runs' = [Log(r, <<"submitOk", "reward", "confirm", "navigate">>)
                   EXCEPT ![r].pc = "navigated"]
    /\ navigateTo("customers", r)
    /\ UNCHANGED << loaded, content, navCount >>
    /\ UNCHANGED << appStateVars, cameraVars, cameraId, scanning,
                    errorMessage >>

\* success of the submission: the reward notification when due, the
\* confirmation message, then navigateTo('customers').
SubmitSuccess(r) ==
    /\ Quiet
    /\ runs[r].pc = "submit"
    /\ runs' = [Log(r, <<"submitOk">>
                       \o (IF runs[r].rewardDue THEN <<"reward">> ELSE << >>)
                       \o <<"confirm", "navigate">>)
                   EXCEPT ![r].pc = "navigated"]
    /\ navigateTo("customers", r)
    /\ UNCHANGED << loaded, content, navCount >>
    /\ UNCHANGED << appStateVars, cameraVars, cameraId, scanning,
                    errorMessage >>

\* An error callback of the submission that shows the message and sets no
\* timer.
SubmitError_NoTimer(r, xhr) ==
    /\ Quiet
    /\ runs[r].pc = "submit"
    /\ errorMessage' = [text |-> ErrorText(xhr), visible |-> TRUE]
    /\ runs' = [Log(r, <<"submitErr", "error">>) EXCEPT ![r].pc = "failed",
                                                        ![r].xhr = xhr]
    /\ UNCHANGED << appStateVars, cameraVars, pageVars, cameraId, scanning >>

\* error of the submission: the message is shown and the 1000 ms timer is set.
SubmitError(r, xhr) ==
    /\ Quiet
    /\ runs[r].pc = "submit"
    /\ errorMessage' = [text |-> ErrorText(xhr), visible |-> TRUE]
    /\ runs' = [Log(r, <<"submitErr", "error">>) EXCEPT ![r].pc = "timer",
                                                        ![r].xhr = xhr]
    /\ UNCHANGED << appStateVars, cameraVars, pageVars, cameraId, scanning >>

\* Mutant of ErrorTimer: the message is cleared but scanning is not started.
ErrorTimer_NoRestart(r) ==
    /\ Quiet
    /\ runs[r].pc = "timer"
    /\ errorMessage' = [errorMessage EXCEPT !.visible = FALSE]
    /\ runs' = [Log(r, <<"clear">>) EXCEPT ![r].pc = "resumed"]
    /\ UNCHANGED << appStateVars, cameraVars, pageVars, cameraId, scanning >>

\* The timer set by either error handler fires: fadeOut(), startScan().
ErrorTimer(r) ==
    /\ Quiet
    /\ runs[r].pc = "timer"
    /\ errorMessage' = [errorMessage EXCEPT !.visible = FALSE]
    /\ startScan
    /\ runs' = [Log(r, <<"clear", "start">>) EXCEPT ![r].pc = "resumed"]
    /\ UNCHANGED << appStateVars, cameraVars, pageVars, cameraId >>

\* ---------------------------------------------------------- specification
Init ==
    /\ cameraInitialized = FALSE
    /\ html5QrcodeScanner = 0
    /\ deviceId = Null
    /\ cookie \in InitialCookies
    /\ cameraId \in CameraIdEnv
    /\ loaded = FALSE
    /\ content = Null
    /\ dropdown = [options |-> << >>, listeners |-> 0]
    /\ navs = EmptyBag
    /\ loading = 0
    /\ enumerating = 0
    /\ scanning = FALSE
    /\ runs = << >>
    /\ errorMessage = [text |-> "", visible |-> FALSE]
    /\ navCount = 0
    /\ alert = "none"
    /\ settled = NotSettled

Next ==
    \/ initializeApp
    \/ UserNavigate
    \/ \E n \in BagToSet(navs) : FetchResolved(n)
    \/ \E n \in BagToSet(navs) : FetchFailed(n)
    \/ \E n \in BagToSet(navs) : StopSettled(n)
    \/ ScriptLoaded
    \/ ScriptError
    \/ CamerasRejected
    \/ \E devices \in DeviceLists : CamerasResolved(devices)
    \/ DropdownChange
    \/ handleScan
    \/ \E r \in 1..Len(runs) : StopResolved(r)
    \/ \E r \in 1..Len(runs) : StopRejected(r)
    \/ \E r \in 1..Len(runs), reward_due \in BOOLEAN : LookupSuccess(r, reward_due)
    \/ \E r \in 1..Len(runs), xhr \in PipelineErrors : LookupError(r, xhr)
    \/ \E r \in 1..Len(runs) : SubmitSuccess(r)
    \/ \E r \in 1..Len(runs), xhr \in PipelineErrors : SubmitError(r, xhr)
    \/ \E r \in 1..Len(runs) : ErrorTimer(r)

Spec == Init /\ [][Next]_vars

\* The callbacks of run r: the settlement of its stop(), the answers to its
\* two requests and its timer.
RunStep(r) ==
    /\ r \in 1..Len(runs)
    /\ \/ StopResolved(r)
       \/ StopRejected(r)
       \/ \E reward_due \in BOOLEAN : LookupSuccess(r, reward_due)
       \/ \E xhr \in PipelineErrors : LookupError(r, xhr)
       \/ SubmitSuccess(r)
       \/ \E xhr \in PipelineErrors : SubmitError(r, xhr)
       \/ ErrorTimer(r)

\* The program with no navigation by the user and with every shape of failed
\* response.
ErrorsNext ==
    \/ initializeApp
    \/ \E n \in BagToSet(navs) : FetchResolved(n)
    \/ \E n \in BagToSet(navs) : FetchFailed(n)
    \/ \E n \in BagToSet(navs) : StopSettled(n)
    \/ ScriptLoaded
    \/ ScriptError
    \/ CamerasRejected
    \/ \E devices \in DeviceLists : CamerasResolved(devices)
    \/ DropdownChange
    \/ handleScan
    \/ \E r \in 1..Len(runs) : StopResolved(r)
    \/ \E r \in 1..Len(runs) : StopRejected(r)
    \/ \E r \in 1..Len(runs), reward_due \in BOOLEAN : LookupSuccess(r, reward_due)
    \/ \E r \in 1..Len(runs), xhr \in XhrErrors : LookupError(r, xhr)
    \/ \E r \in 1..Len(runs) : SubmitSuccess(r)
    \/ \E r \in 1..Len(runs), xhr \in XhrErrors : SubmitError(r, xhr)
    \/ \E r \in 1..Len(runs) : ErrorTimer(r)

ErrorsSpec == Init /\ [][ErrorsNext]_vars

\* The promises, requests and timers of the runs eventually complete: while
\* a callback of some run is pending, the event loop eventually runs one.
FairSpec == Spec /\ WF_vars(\E r \in 1..MaxDecodes : RunStep(r))

\* ------------------------------------------------------------------ claims
Runs == 1..Len(runs)

Count(fx, e) == Cardinality({ i \in 1..Len(fx) : fx[i] = e })

Has(fx, e) == \E i \in 1..Len(fx) : fx[i] = e

\* Every occurrence of b in fx comes after an occurrence of a.
Before(fx, a, b) ==
    \A j \in 1..Len(fx) : fx[j] = b => \E i \in 1..(j - 1) : fx[i] = a

LookupInFlight(r) ==
    Count(runs[r].fx, "lookup")
        > Count(runs[r].fx, "lookupOk") + Count(runs[r].fx, "lookupErr")

SubmitInFlight(r) ==
    Count(runs[r].fx, "submit")
        > Count(runs[r].fx, "submitOk") + Count(runs[r].fx, "submitErr")

\* C1: for every decode event the submission is issued only after the lookup
\* of that decode completed successfully, a failed lookup is followed by no
\* submission, and the lookup and the submission of one decode are never in
\* flight together.
C1_SubmitAfterLookup ==
    \A r \in Runs :
        /\ Before(runs[r].fx, "lookupOk", "submit")
        /\ Before(runs[r].fx, "lookup", "lookupOk")
        /\ Has(runs[r].fx, "lookupErr") => ~Has(runs[r].fx, "submit")
        /\ ~(LookupInFlight(r) /\ SubmitInFlight(r))

\* C1 witness: one decode whose submission was issued after its lookup
\* succeeded, and one decode whose lookup failed and whose run is over.
C1_Witness ==
    /\ \E r \in Runs : Has(runs[r].fx, "submit") /\ SubmitInFlight(r)
    /\ \E r \in Runs : Has(runs[r].fx, "lookupErr") /\ runs[r].pc = "resumed"

\* C2: no network call of a decode is issued until the stop for that decode
\* completed successfully: whenever a lookup or a submission is in flight,
\* the camera is not scanning.
C2_NoCallWhileScanning ==
    \A r \in Runs :
        /\ Before(runs[r].fx, "stopOk", "lookup")
        /\ Before(runs[r].fx, "stopOk", "submit")
        /\ (LookupInFlight(r) \/ SubmitInFlight(r)) => ~scanning

\* C3: at most one pipeline run is in flight at any time.
C3_OneActiveRun == Cardinality(ActiveRuns) <= 1

\* A callback of run r ran in this step.
RunStepped(r) == runs'[r].pc # runs[r].pc

\* C4: once the user has navigated away from the scan view while a run was
\* in flight, the later callbacks of that run do not restart scanning, emit
\* no reward or confirmation message and call navigateTo no more.
C4_StaleRunIgnored ==
    [][ \A r \in Runs :
            (runs[r].stale /\ RunStepped(r)) =>
                /\ scanning' = scanning
                /\ navs' = navs
                /\ Count(runs'[r].fx, "start") = Count(runs[r].fx, "start")
                /\ Count(runs'[r].fx, "reward") = Count(runs[r].fx, "reward")
                /\ Count(runs'[r].fx, "confirm") = Count(runs[r].fx, "confirm")
                /\ Count(runs'[r].fx, "navigate") = Count(runs[r].fx, "navigate")
      ]_vars

Last(fx, n) == SubSeq(fx, Len(fx) - n + 1, Len(fx))

Failed(r) == Has(runs[r].fx, "lookupErr") \/ Has(runs[r].fx, "submitErr")

\* C5: when the lookup or the submission of a decode fails, the error
\* message is displayed; when the timer fires the message is cleared and
\* scanning is started; the run navigates nowhere, and no call is repeated:
\* at most one lookup and one submission per decode.
C5_ErrorThenResume ==
    /\ [] \A r \in Runs :
            /\ Count(runs[r].fx, "lookup") <= 1
            /\ Count(runs[r].fx, "submit") <= 1
            /\ Failed(r) =>
                  /\ runs[r].pc \in {"timer", "resumed"}
                  /\ ~Has(runs[r].fx, "navigate")
                  /\ runs[r].pc = "timer" =>
                        /\ Last(runs[r].fx, 2)[1] \in {"lookupErr", "submitErr"}
                        /\ Last(runs[r].fx, 2)[2] = "error"
                  /\ runs[r].pc = "resumed" =>
                        Last(runs[r].fx, 3) = <<"error", "clear", "start">>
    /\ [][ \A r \in Runs :
             /\ (RunStepped(r) /\ runs'[r].pc = "timer") =>
                    /\ errorMessage'.visible
                    /\ errorMessage'.text # ""
                    /\ scanning' = scanning
                    /\ navs' = navs
             /\ (RunStepped(r) /\ runs[r].pc = "timer") =>
                    /\ runs'[r].pc = "resumed"
                    /\ ~errorMessage'.visible
                    /\ scanning'
                    /\ navs' = navs
       ]_vars

\* C5 witness: one run resumed scanning after a failed lookup and another
\* after a failed submission.
C5_Witness ==
    /\ \E r \in Runs : Has(runs[r].fx, "lookupErr") /\ runs[r].pc = "resumed"
    /\ \E r \in Runs : Has(runs[r].fx, "submitErr") /\ runs[r].pc = "resumed"
    /\ scanning /\ ~errorMessage.visible

\* C6: when the stop at the start of a run fails, the failure is reported,
\* the run ends there with no lookup, no submission and no navigation, and
\* it does not start scanning again.
C6_StopFailureAborts ==
    /\ [] \A r \in Runs :
            /\ Has(runs[r].fx, "stopErr") => runs[r].pc = "aborted"
            /\ runs[r].pc = "aborted" =>
                  runs[r].fx = <<"stop", "stopErr", "alert">>
    /\ [][ \A r \in Runs :
             (RunStepped(r) /\ runs'[r].pc = "aborted") =>
                 /\ scanning' = scanning
                 /\ navs' = navs
             ]_vars
    /\ [][ \A r \in Runs : runs[r].pc = "aborted" => runs'[r] = runs[r] ]_vars

\* C6 witness: a run whose stop failed, with the camera left stopped.
C6_Witness == \E r \in Runs : runs[r].pc = "aborted" /\ ~scanning

\* C7: on a successful submission the confirmation message is emitted and
\* then navigateTo is called; the reward notification is emitted, before
\* both, exactly when the lookup of that decode answered reward_due true.
C7_MessagesBeforeNavigation ==
    \A r \in Runs :
        /\ Has(runs[r].fx, "submitOk") <=> runs[r].pc = "navigated"
        /\ Has(runs[r].fx, "confirm") <=> runs[r].pc = "navigated"
        /\ runs[r].pc = "navigated" =>
              /\ Last(runs[r].fx, 2) = <<"confirm", "navigate">>
              /\ Count(runs[r].fx, "navigate") = 1
              /\ Has(runs[r].fx, "reward") <=> runs[r].rewardDue
              /\ Before(runs[r].fx, "reward", "confirm") \/ ~runs[r].rewardDue
              /\ Before(runs[r].fx, "submitOk", "reward")
        /\ Has(runs[r].fx, "reward") => runs[r].pc = "navigated"

\* C7 witness: a check-in with a reward due and one without, both navigated.
C7_Witness ==
    /\ \E r \in Runs : runs[r].pc = "navigated" /\ runs[r].rewardDue
    /\ \E r \in Runs : runs[r].pc = "navigated" /\ ~runs[r].rewardDue

\* The navigateTo call made by run r is over and the customer list is shown:
\* its stopScanning() has settled.
NavigationOver(r) ==
    /\ runs[r].pc = "navigated"
    /\ \A n \in BagToSet(navs) : n.by # r
    /\ content = "customers"

\* This step runs initializeCamera: the scan view's page logic, or a
\* getCameras() continuation of an earlier entry of the scan view.
InitializeCameraStep ==
    \/ enumerating' < enumerating
    \/ \E n \in BagToSet(navs) :
          /\ n.page = "scan" /\ n.pc = "stop"
          /\ CopiesIn(n, navs') < CopiesIn(n, navs)

\* C8: the pipeline calls navigateTo only after a successful submission and
\* only with the customer list; once that navigation is over, scanning is
\* not started again until the scan view is entered again.
C8_NavigateOnlyOnSuccess ==
    [][ /\ \A n \in BagToSet(navs') :
              n.by # 0 => /\ n.page = "customers"
                          /\ Has(runs'[n.by].fx, "submitOk")
        /\ ((\E r \in Runs : NavigationOver(r)) /\ ~scanning /\ scanning')
             => InitializeCameraStep
      ]_vars

\* The getCameras() continuation ran in this step with a non-empty device
\* list: it added the devices' options to the dropdown.
DevicesListed ==
    /\ enumerating' < enumerating
    /\ Len(dropdown'.options) > Len(dropdown.options)

NewOptions == SubSeq(dropdown'.options, Len(dropdown.options) + 1,
                     Len(dropdown'.options))

\* C9: for a non-empty device list, initialize() makes the persisted id the
\* active device when the list has it and the first listed device otherwise,
\* and the value then persisted under selectedCamera is that device id.
C9_ResolvedDevicePersisted ==
    [][ DevicesListed =>
            /\ deviceId' = ResolveDevice(NewOptions, cookie)
            /\ cookie' = deviceId'
      ]_vars

\* C10: when the library has loaded and the enumeration yields at least one
\* device, initialize() constructs the scanner, marks the session
\* initialized and starts scanning.
C10_InitializeReachesScanning ==
    [][ DevicesListed =>
            /\ html5QrcodeScanner' # 0
            /\ cameraInitialized'
            /\ scanning'
      ]_vars

\* ------------------------------------------------ initialization failures

\* The getCameras() continuation ran in this step with an empty device list.
EnumeratedNone ==
    settled'.kind = "resolved" /\ settled'.devices = << >>

\* C11: when the enumeration yields an empty list, the failure is shown to
\* the user in an alert, no scanner is constructed and scanning is not
\* started.
C11_EmptyListReported ==
    [][ EnumeratedNone =>
            /\ alert' # "none"
            /\ html5QrcodeScanner' = html5QrcodeScanner
            /\ cameraInitialized' = cameraInitialized
            /\ scanning' = scanning
      ]_vars

\* script.onerror ran in this step: a pending load ended and no enumeration
\* was started.
LibraryLoadFailed ==
    loading' < loading /\ enumerating' = enumerating

\* The page logic of the scan view ran in this step.
ScanViewEntered ==
    \E n \in BagToSet(navs) :
        /\ n.page = "scan" /\ n.pc = "stop"
        /\ CopiesIn(n, navs') < CopiesIn(n, navs)

\* C12: a failed library load is reported in an alert and changes nothing of
\* the session, which stays uninitialized (cameraInitialized false, no
\* scanner, not scanning); entering the scan view while uninitialized
\* starts a load again.
C12_LoadFailureRetried ==
    [][ /\ LibraryLoadFailed =>
              /\ alert' = "library"
              /\ UNCHANGED << appStateVars, scanning >>
              /\ html5QrcodeScanner = 0 =>
                    /\ ~cameraInitialized'
                    /\ html5QrcodeScanner' = 0
                    /\ ~scanning'
        /\ (ScanViewEntered /\ ~cameraInitialized) =>
              /\ loading' = loading + 1
              /\ UNCHANGED << appStateVars, scanning >>
      ]_vars

\* C12 witness: the load has just failed and the session is uninitialized,
\* after an entry of the scan view by the user.
C12_Witness ==
    /\ alert = "library"
    /\ ~cameraInitialized /\ html5QrcodeScanner = 0 /\ ~scanning
    /\ navCount > 0

\* C13: whenever initialization or a device change by the user sets the
\* active device or the persisted value, the value persisted under
\* selectedCamera is the active device id afterwards; a device chosen by the
\* user is one of the enumerated devices.
C13_PersistedIsActive ==
    [][ (deviceId' # deviceId \/ cookie' # cookie) =>
            /\ cookie' = deviceId'
            /\ settled'.kind = "none" => deviceId' \in Range(dropdown.options)
      ]_vars

\* ---------------------------------------------------------------- stop()

\* The teardown of a navigation called stopScanning() in this step.
TeardownCalled ==
    \E n \in BagToSet(navs) :
        /\ n.pc = "fetch"
        /\ CopiesIn([n EXCEPT !.pc = "stop"], navs')
              > CopiesIn([n EXCEPT !.pc = "stop"], navs)

EndPcs == {"navigated", "resumed", "aborted"}

\* The outcomes of a run among its calls: the navigation, the restart of
\* scanning and the report of a failed stop.
Outcomes(fx) ==
    Count(fx, "navigate") + Count(fx, "start") + Count(fx, "alert")

\* C15: every run eventually ends and stays as it ended, and it ends with
\* exactly one of a navigation to the customer list, a restart of scanning
\* and an alert
\* about the failed stop; a run that is not over has had none of them, and
\* a run whose lookup or submission failed has shown the error message.
C15_EveryRunEnds ==
    /\ \A r \in 1..MaxDecodes :
          []<>(r \in Runs => runs[r].pc \in EndPcs)
    /\ [][ \A r \in Runs : runs[r].pc \in EndPcs => runs'[r] = runs[r] ]_vars
    /\ [] \A r \in Runs :
            /\ runs[r].pc \in EndPcs \cup ActivePcs
            /\ Outcomes(runs[r].fx) = (IF runs[r].pc \in EndPcs THEN 1 ELSE 0)
            /\ runs[r].pc = "navigated" => Has(runs[r].fx, "navigate")
            /\ runs[r].pc = "resumed" => Has(runs[r].fx, "start")
            /\ runs[r].pc = "aborted" => Has(runs[r].fx, "alert")
            /\ Failed(r) => Has(runs[r].fx, "error")

\* C15 witness: every run is over, one after a failed submission that
\* resumed scanning and one with a navigation or a failed stop.
C15_Witness ==
    /\ \A r \in Runs : runs[r].pc \in EndPcs
    /\ \E r \in Runs : runs[r].pc = "resumed" /\ Has(runs[r].fx, "submitErr")
    /\ \E r \in Runs : runs[r].pc \in {"navigated", "aborted"}

\* ------------------------------------------------------------- error text

\* An error callback of run r ran in this step.
ErrorShown(r) == RunStepped(r) /\ runs'[r].pc = "timer"

\* C16: the text shown for a failed response is its details field when that
\* is present and not empty, else its raw body when that is not empty, else
\* the generic text; for a failed lookup and a failed submission alike.
C16_ErrorTextPrecedence ==
    [][ \A r \in Runs :
          ErrorShown(r) =>
            LET xhr == runs'[r].xhr IN
              /\ xhr \in XhrErrors
              /\ errorMessage'.visible
              /\ (xhr.details # Null /\ xhr.details # "") =>
                    errorMessage'.text = xhr.details
              /\ ((xhr.details = Null \/ xhr.details = "")
                     /\ xhr.responseText # "") =>
                    errorMessage'.text = xhr.responseText
              /\ ((xhr.details = Null \/ xhr.details = "")
                     /\ xhr.responseText = "") =>
                    errorMessage'.text = "Errore generico"
      ]_vars

\* C16 witness: a lookup failed with an empty details field and its raw body
\* was shown; then a submission failed with no details and no body and the
\* generic text is shown.
C16_Witness ==
    /\ \E r \in Runs :
          /\ Has(runs[r].fx, "lookupErr")
          /\ runs[r].xhr.details = "" /\ runs[r].xhr.responseText = "Bad Request"
    /\ \E r \in Runs :
          /\ Has(runs[r].fx, "submitErr") /\ runs[r].pc = "timer"
          /\ runs[r].xhr.details = Null /\ runs[r].xhr.responseText = ""
    /\ errorMessage = [text |-> "Errore generico", visible |-> TRUE]

\* ----------------------------------------------------------- session status

\* The status of the scan session as the fields show it between two
\* callbacks.  Ready is passed through inside the getCameras() continuation,
\* which constructs the scanner, sets cameraInitialized and calls startScan()
\* in one go.
Status ==
    IF scanning THEN "Scanning"
    ELSE IF cameraInitialized THEN "Stopped"
    ELSE IF loading + enumerating > 0 THEN "Initializing"
    ELSE "Uninitialized"

Transitions ==
    { <<"Uninitialized", "Initializing">>,
      <<"Initializing", "Uninitialized">>,
      <<"Initializing", "Scanning">>,
      <<"Scanning", "Stopped">>,
      <<"Stopped", "Scanning">> }

\* An initialization attempt ended in this step with no scanner constructed.
InitializationFailed ==
    /\ loading' + enumerating' < loading + enumerating
    /\ html5QrcodeScanner' = html5QrcodeScanner

\* A decode event called handleScan in this step.
DecodeFired == Len(runs') > Len(runs)

C18_SingleInitialization ==
    /\ loading + enumerating <= 1
    /\ html5QrcodeScanner <= 1

\* ------------------------------------------------------------- navigation

\* A view was shown in this step: the fetch of a navigation resolved.
ViewShown ==
    \E n \in BagToSet(navs) :
        /\ n.pc = "fetch"
        /\ CopiesIn(n, navs') < CopiesIn(n, navs)
        /\ content' = n.page

\* A view other than the scan view is shown and no navigation is in flight.
AwayCompleted == content = "customers" /\ navs = EmptyBag

\* C19: every navigation that shows a view calls the teardown stop, the
\* page logic (initializeCamera for the scan view) runs only for a
\* navigation whose teardown has settled, and once a navigation away from
\* the scan view is complete the camera is not scanning.
C19_TeardownBeforePageLogic ==
    [][ /\ ViewShown => (TeardownCalled /\ ~scanning')
        /\ loading' > loading => ScanViewEntered
        /\ AwayCompleted' => ~scanning'
      ]_vars

\* C20: while cameraInitialized is true the scanner and the active device id
\* are set; cameraInitialized never goes back to false; and once it is true
\* an entry of the scan view starts scanning at once, with no load of the
\* library, no enumeration and no new scanner.
C20_InitializedStaysReady ==
    /\ [] (cameraInitialized => (html5QrcodeScanner # 0 /\ deviceId # Null))
    /\ [][ /\ cameraInitialized => cameraInitialized'
           /\ (ScanViewEntered /\ cameraInitialized) =>
                 /\ scanning'
                 /\ UNCHANGED << loading, enumerating, html5QrcodeScanner >>
         ]_vars

\* C20 witness: the scan view was entered again while the one run's requests
\* were pending: the camera its decode stopped scans again, with the one
\* scanner and nothing loading.
C20_Witness ==
    /\ cameraInitialized /\ scanning
    /\ html5QrcodeScanner = 1 /\ loading + enumerating = 0
    /\ Len(runs) = 1 /\ runs[1].pc \in {"stopping", "lookup", "submit"}

============================================================================
